---- MODULE Spec2Model ----
(***************************************************************************)
(* The global hotkey core of whisper-writer: KeyChord (key_chord.py),      *)
(* KeyListener (key_listener.py) and the input backends                    *)
(* (input_backend/pynput_backend.py, and the evdev backend, whose file is  *)
(* not part of the sources at hand and is modelled from the description of *)
(* the backend contract).                                                  *)
(***************************************************************************)
EXTENDS Integers, Naturals, Sequences, FiniteSets, TLC

VARIABLES
    backends,        \* KeyListener.backends: the available backends, in priority order
    active_backend,  \* KeyListener.active_backend: "None", "evdev" or "pynput"
    key_chord,       \* KeyListener.key_chord: [keys, pressed_keys]
    callbacks,       \* KeyListener.callbacks: [on_activate, on_deactivate], each a sequence
    evdev,           \* the EvdevBackend instance: [capturing]
    pynput,          \* the PynputBackend instance: listener references and native threads
    last,            \* the most recent call on the listener and what it did
    last_fired,      \* the event most recently dispatched to the callbacks
    script,          \* progress of the events delivered to the current matcher along Script
    threads,         \* the calls of on_input_event in progress on pynput's two threads
    app              \* WhisperWriterAppManager: its result thread and its handlers in progress

vars == <<backends, active_backend, key_chord, callbacks, evdev, pynput,
          last, last_fired, script, threads, app>>

--------------------------------------------------------------------------
(* Bounds of the model *)

\* add_callback registrations accepted over the listener's life
MaxCallbacks == 2

\* native listener threads of one kind (keyboard, mouse) alive at once
MaxListeners == 2

\* ResultThread objects running at once
MaxResultThreads == 2

--------------------------------------------------------------------------
(* input_events: KeyCode and InputEvent *)

KEY_PRESS == "KEY_PRESS"
KEY_RELEASE == "KEY_RELEASE"
InputEvent == {KEY_PRESS, KEY_RELEASE}

\* The members of the KeyCode enum the model uses.
KeyCode == {"CTRL_LEFT", "CTRL_RIGHT", "SHIFT_LEFT", "SHIFT_RIGHT",
            "ALT_LEFT", "ALT_RIGHT", "META_LEFT", "META_RIGHT", "A", "MOUSE_LEFT"}

\* Python's None, as a key: what a failed key_map lookup returns.
NoneKey == "None"

\* KeyCode[name]: the enum's lookup by member name (a name is a sequence of characters).
KeyCodeNames ==
    { <<"CTRL_LEFT",   <<"C","T","R","L","_","L","E","F","T">> >>,
      <<"CTRL_RIGHT",  <<"C","T","R","L","_","R","I","G","H","T">> >>,
      <<"SHIFT_LEFT",  <<"S","H","I","F","T","_","L","E","F","T">> >>,
      <<"SHIFT_RIGHT", <<"S","H","I","F","T","_","R","I","G","H","T">> >>,
      <<"ALT_LEFT",    <<"A","L","T","_","L","E","F","T">> >>,
      <<"ALT_RIGHT",   <<"A","L","T","_","R","I","G","H","T">> >>,
      <<"META_LEFT",   <<"M","E","T","A","_","L","E","F","T">> >>,
      <<"META_RIGHT",  <<"M","E","T","A","_","R","I","G","H","T">> >> ,
      <<"A",           <<"A">> >>,
      <<"MOUSE_LEFT",  <<"M","O","U","S","E","_","L","E","F","T">> >> }

--------------------------------------------------------------------------
(* str.upper, str.split, str.strip on strings held as sequences of characters *)

LowerCase == <<"a","b","c","d","e","f","g","h","i","j","k","l","m",
               "n","o","p","q","r","s","t","u","v","w","x","y","z">>
UpperCase == <<"A","B","C","D","E","F","G","H","I","J","K","L","M",
               "N","O","P","Q","R","S","T","U","V","W","X","Y","Z">>

UpperChar(c) ==
    IF \E i \in 1..Len(LowerCase) : LowerCase[i] = c
    THEN UpperCase[CHOOSE i \in 1..Len(LowerCase) : LowerCase[i] = c]
    ELSE c

Upper(s) == [i \in 1..Len(s) |-> UpperChar(s[i])]

RECURSIVE Split(_, _)
Split(s, sep) ==
    IF \E i \in 1..Len(s) : s[i] = sep
    THEN LET i == CHOOSE j \in 1..Len(s) :
                      s[j] = sep /\ \A m \in 1..(j-1) : s[m] # sep
         IN  <<SubSeq(s, 1, i-1)>> \o Split(SubSeq(s, i+1, Len(s)), sep)
    ELSE <<s>>

RECURSIVE Strip(_)
Strip(s) ==
    IF s = <<>> THEN s
    ELSE IF Head(s) = " " THEN Strip(Tail(s))
    ELSE IF s[Len(s)] = " " THEN Strip(SubSeq(s, 1, Len(s)-1))
    ELSE s

--------------------------------------------------------------------------
(* KeyListener.parse_key_combination *)

\* An element of a chord: a single KeyCode, or a frozenset of KeyCodes (a class).
Single(k) == [cls |-> FALSE, ks |-> {k}]
Class(S)  == [cls |-> TRUE,  ks |-> S]

\* key_map of parse_key_combination
key_map ==
    { << <<"C","T","R","L">>,     Class({"CTRL_LEFT", "CTRL_RIGHT"}) >>,
      << <<"S","H","I","F","T">>, Class({"SHIFT_LEFT", "SHIFT_RIGHT"}) >>,
      << <<"A","L","T">>,         Class({"ALT_LEFT", "ALT_RIGHT"}) >>,
      << <<"M","E","T","A">>,     Class({"META_LEFT", "META_RIGHT"}) >> }

\* The elements one token contributes: its class, its KeyCode, or nothing (KeyError).
ParseToken(tok) ==
    LET key == Strip(tok)
    IN  IF \E p \in key_map : p[1] = key
        THEN {p[2] : p \in {q \in key_map : q[1] = key}}
        ELSE {Single(p[1]) : p \in {q \in KeyCodeNames : q[2] = key}}

\* parse_key_combination comparing the tokens as they are written
parse_key_combination_cased(combination_string) ==
    LET toks == Split(combination_string, "+")
    IN  UNION {ParseToken(toks[i]) : i \in 1..Len(toks)}

parse_key_combination(combination_string) ==
    LET toks == Split(Upper(combination_string), "+")
    IN  UNION {ParseToken(toks[i]) : i \in 1..Len(toks)}

\* The values of recording_options.activation_key the model draws from.
Str_ctrl_shift_a == <<"c","t","r","l","+","s","h","i","f","t","+","a">>
Str_shiftr_a     == <<"s","h","i","f","t","_","r","i","g","h","t","+","a">>
Str_mixed        == <<"C","t","r","l"," ","+"," ","f","o","o","+","A">>
Str_unknown      == <<"f","o","o">>
Str_alt_meta     == <<"A","l","t","+","M","E","T","A"," ">>
ChordStrings == {Str_ctrl_shift_a, Str_shiftr_a, Str_mixed, Str_unknown, Str_alt_meta}

\* The values drawn where the keyboard thread and the mouse thread are modelled
\* apart: a chord of two keyboard keys, and one of a key and a mouse button.
Str_a_mouse == <<"a","+","m","o","u","s","e","_","l","e","f","t">>
ThreadChordStrings == {Str_shiftr_a, Str_a_mouse}

--------------------------------------------------------------------------
(* KeyChord *)

\* KeyChord.__init__
KeyChord(keys) == [keys |-> keys, pressed_keys |-> {}]

\* parse_key_combination of each value of activation_key
ParsedChords ==
    [s \in ChordStrings \cup ThreadChordStrings |-> parse_key_combination(s)]

\* KeyListener.load_activation_keys and set_activation_keys, activation_key being s
load_activation_keys(s) == KeyChord(ParsedChords[s])

\* The loop of KeyChord.is_active: every element has a pressed key.
AllRequiredPressed(keys, pressed) ==
    \A e \in keys :
        IF e.cls THEN \E k \in e.ks : k \in pressed
                 ELSE e.ks \subseteq pressed

\* is_active with a class satisfied only by all of its members
is_active_all_members(kc) ==
    /\ \A e \in kc.keys : e.ks \subseteq kc.pressed_keys
    /\ Cardinality(kc.pressed_keys) = Cardinality(kc.keys)

\* KeyChord.is_active
is_active(kc) ==
    /\ AllRequiredPressed(kc.keys, kc.pressed_keys)
    /\ Cardinality(kc.pressed_keys) = Cardinality(kc.keys)

\* update with a release that empties the pressed set
update_release_all(kc, key, event_type) ==
    IF event_type = KEY_PRESS
    THEN [kc EXCEPT !.pressed_keys = @ \cup {key}]
    ELSE [kc EXCEPT !.pressed_keys = {}]

\* update with a press of a pressed key taken as its release
update_toggle(kc, key, event_type) ==
    IF event_type = KEY_PRESS
    THEN [kc EXCEPT !.pressed_keys =
              IF key \in @ THEN @ \ {key} ELSE @ \cup {key}]
    ELSE [kc EXCEPT !.pressed_keys = @ \ {key}]

\* KeyChord.update: the matcher after the event (the value returned is is_active of it)
update(kc, key, event_type) ==
    IF event_type = KEY_PRESS
    THEN [kc EXCEPT !.pressed_keys = @ \cup {key}]
    ELSE [kc EXCEPT !.pressed_keys = @ \ {key}]

--------------------------------------------------------------------------
(* The backends *)

BackendNames == {"evdev", "pynput"}

\* backend_classes of initialize_backends, in priority order
backend_classes == <<"evdev", "pynput">>

\* The values of recording_options.input_backend the model draws from.
BackendConfigs == {"auto", "evdev", "pynput", "bogus"}

\* backend_map of select_backend_from_config
backend_map == {"evdev", "pynput"}

\* EvdevBackend after construction
EvdevInit == [capturing |-> FALSE]

\* EvdevBackend.start and stop: capture begins, capture ceases
EvdevStart(e) == [e EXCEPT !.capturing = TRUE]
EvdevStop(e)  == [e EXCEPT !.capturing = FALSE]

\* PynputBackend.__init__: no listener, no key map; no native thread runs.
\* key_map is "None", "built" (the table of _create_key_map) or "empty" (the {}
\* _create_key_map returns when it fails); kb_started and ms_started tell whether
\* the listener a reference holds was started.
PynputInit ==
    [keyboard_listener |-> FALSE, mouse_listener |-> FALSE, key_map |-> "None",
     kb_started |-> FALSE, ms_started |-> FALSE,
     kb_threads |-> 0, ms_threads |-> 0]

\* Where a call of PynputBackend.start can fail: in _create_key_map, in the
\* construction of either listener, in the start of either listener.
StartFailures ==
    {"none", "key_map", "keyboard_ctor", "mouse_ctor", "keyboard_start", "mouse_start"}

\* Where a call of PynputBackend.stop can fail: in the stop of either listener.
StopFailures == {"none", "keyboard_stop", "mouse_stop"}

\* PynputBackend.start, failing at the point failure names: the backend after the
\* call and the exception raised to the caller.  New listeners replace the
\* references and are started; listeners the references held before keep running.
PynputStartOutcome(p, failure) ==
    LET p1 == [p EXCEPT !.key_map =
                   IF @ = "None"
                   THEN (IF failure = "key_map" THEN "empty" ELSE "built")
                   ELSE @]
    IN  IF failure = "keyboard_ctor"
            THEN [p |-> p1, raised |-> "Exception"]
        ELSE IF failure = "mouse_ctor"
            THEN [p |-> [p1 EXCEPT !.keyboard_listener = TRUE, !.kb_started = FALSE],
                  raised |-> "Exception"]
        ELSE IF failure = "keyboard_start"
            THEN [p |-> [p1 EXCEPT !.keyboard_listener = TRUE, !.kb_started = FALSE,
                                   !.mouse_listener = TRUE, !.ms_started = FALSE],
                  raised |-> "Exception"]
        ELSE IF failure = "mouse_start"
            THEN [p |-> [p1 EXCEPT !.keyboard_listener = TRUE, !.kb_started = TRUE,
                                   !.kb_threads = @ + 1,
                                   !.mouse_listener = TRUE, !.ms_started = FALSE],
                  raised |-> "Exception"]
        ELSE [p |-> [p1 EXCEPT !.keyboard_listener = TRUE, !.mouse_listener = TRUE,
                               !.kb_started = TRUE, !.ms_started = TRUE,
                               !.kb_threads = @ + 1, !.ms_threads = @ + 1],
              raised |-> "none"]

\* PynputBackend.start when nothing fails
PynputStart(p) == PynputStartOutcome(p, "none").p

\* PynputBackend.stop, failing at the point failure names.  The referenced
\* listeners are stopped and forgotten, the keyboard's first; an exception is
\* logged and ends the call, which returns normally.
PynputStopOutcome(p, failure) ==
    LET kb == [p EXCEPT !.kb_threads = IF p.keyboard_listener /\ p.kb_started
                                         THEN @ - 1 ELSE @,
                        !.keyboard_listener = FALSE, !.kb_started = FALSE]
        ms == [kb EXCEPT !.ms_threads = IF p.mouse_listener /\ p.ms_started
                                         THEN @ - 1 ELSE @,
                         !.mouse_listener = FALSE, !.ms_started = FALSE]
    IN  IF failure = "keyboard_stop" /\ p.keyboard_listener THEN p
        ELSE IF failure = "mouse_stop" /\ p.mouse_listener THEN kb
        ELSE ms

\* PynputBackend.stop when nothing fails
PynputStop(p) == PynputStopOutcome(p, "none")

\* key_map built by PynputBackend._create_key_map (the entries the model uses)
PynputKeyMap ==
    { <<[kind |-> "Key", name |-> "ctrl_l"],  "CTRL_LEFT">>,
      <<[kind |-> "Key", name |-> "ctrl_r"],  "CTRL_RIGHT">>,
      <<[kind |-> "Key", name |-> "shift_r"], "SHIFT_RIGHT">>,
      <<[kind |-> "char", name |-> "a"],       "A">>,
      <<[kind |-> "Button", name |-> "left"],  "MOUSE_LEFT">> }

\* Native keys the keyboard listener reports: three modifiers, the letter a typed
\* in either case, and a key the table does not hold.
NativeKeys ==
    { [kind |-> "Key",  name |-> "ctrl_l"], [kind |-> "Key",  name |-> "ctrl_r"],
      [kind |-> "Key",  name |-> "shift_r"],
      [kind |-> "char", name |-> "a"], [kind |-> "char", name |-> "A"],
      [kind |-> "Key",  name |-> "unmapped"] }

\* Native buttons the mouse listener reports: one the table does not hold.
NativeButtons == { [kind |-> "Button", name |-> "unmapped"] }

\* The native keys and buttons drawn where the two threads are modelled apart:
\* among the buttons, the left one, which the table holds.
ThreadNativeKeys ==
    { [kind |-> "Key",  name |-> "shift_r"], [kind |-> "char", name |-> "a"],
      [kind |-> "Key",  name |-> "unmapped"] }
ThreadNativeButtons ==
    { [kind |-> "Button", name |-> "left"], [kind |-> "Button", name |-> "unmapped"] }

\* The keys the evdev backend delivers
EvdevKeys == {"CTRL_LEFT", "CTRL_RIGHT", "SHIFT_RIGHT", "A"}

LowerChar(c) ==
    IF \E i \in 1..Len(UpperCase) : UpperCase[i] = c
    THEN LowerCase[CHOOSE i \in 1..Len(UpperCase) : UpperCase[i] = c]
    ELSE c

\* dict.get on the key map of the backend
KeyMapGet(n) ==
    IF pynput.key_map = "built" /\ \E p \in PynputKeyMap : p[1] = n
    THEN (CHOOSE p \in PynputKeyMap : p[1] = n)[2]
    ELSE NoneKey

\* PynputBackend._get_key_code
get_key_code(n) ==
    IF n.kind = "char"
    THEN KeyMapGet([kind |-> "char", name |-> LowerChar(n.name)])
    ELSE KeyMapGet(n)

\* PynputBackend._translate_key_event
translate_key_event(n, is_press) ==
    <<get_key_code(n), IF is_press THEN KEY_PRESS ELSE KEY_RELEASE>>

--------------------------------------------------------------------------
(* KeyListener: backend selection, start and stop.  These operators act   *)
(* on w = [backends, active_backend, evdev, pynput] and return the new w  *)
(* and the exception raised to the caller ("none" when the call returns). *)
(* Selecting a backend also sets its on_input_event to the listener's; a  *)
(* backend is started only while it is the active one, so every backend   *)
(* that captures has the listener's on_input_event as its sink, and the   *)
(* binding is not a variable of the model.                                *)

World == [backends |-> backends, active_backend |-> active_backend,
          evdev |-> evdev, pynput |-> pynput]

Ok(w) == [w |-> w, raised |-> "none"]
Raise(w, e) == [w |-> w, raised |-> e]

InSeq(x, s) == \E i \in 1..Len(s) : s[i] = x

\* start returning without an error when no backend is selected
start_silent(w) ==
    IF w.active_backend = "evdev"
        THEN Ok([w EXCEPT !.evdev = EvdevStart(@)])
    ELSE IF w.active_backend = "pynput"
        THEN Ok([w EXCEPT !.pynput = PynputStart(@)])
    ELSE Ok(w)

\* KeyListener.start
start(w) ==
    IF w.active_backend = "evdev"
        THEN Ok([w EXCEPT !.evdev = EvdevStart(@)])
    ELSE IF w.active_backend = "pynput"
        THEN Ok([w EXCEPT !.pynput = PynputStart(@)])
    ELSE Raise(w, "RuntimeError")

\* KeyListener.stop
stop(w) ==
    IF w.active_backend = "evdev" THEN [w EXCEPT !.evdev = EvdevStop(@)]
    ELSE IF w.active_backend = "pynput" THEN [w EXCEPT !.pynput = PynputStop(@)]
    ELSE w

\* select_active_backend returning with no backend when the list is empty
select_active_backend_silent(w) ==
    IF w.backends = <<>>
    THEN Ok(w)
    ELSE Ok([w EXCEPT !.active_backend = w.backends[1]])

\* select_active_backend taking the last backend of the list
select_active_backend_last(w) ==
    IF w.backends = <<>>
    THEN Raise(w, "RuntimeError")
    ELSE Ok([w EXCEPT !.active_backend = w.backends[Len(w.backends)]])

\* KeyListener.select_active_backend
select_active_backend(w) ==
    IF w.backends = <<>>
    THEN Raise(w, "RuntimeError")
    ELSE Ok([w EXCEPT !.active_backend = w.backends[1]])

\* KeyListener.set_active_backend
set_active_backend(w, backend_class) ==
    IF InSeq(backend_class, w.backends)
    THEN LET w1 == IF w.active_backend # "None" THEN stop(w) ELSE w
             w2 == [w1 EXCEPT !.active_backend = backend_class]
         IN  start(w2)
    ELSE Raise(w, "ValueError")

\* select_backend_from_config without the fallback: the ValueError of
\* set_active_backend and an unknown name are raised to the caller
select_backend_from_config_strict(w, preferred_backend) ==
    IF preferred_backend = "auto"
    THEN select_active_backend(w)
    ELSE IF preferred_backend \in backend_map
         THEN set_active_backend(w, preferred_backend)
         ELSE Raise(w, "ValueError")

\* The warning select_backend_from_config logs before it falls back to
\* select_active_backend ("none": no fallback is taken)
fallback_warning(w, preferred_backend) ==
    IF preferred_backend = "auto" THEN "none"
    ELSE IF preferred_backend \in backend_map
         THEN IF set_active_backend(w, preferred_backend).raised = "ValueError"
              THEN "not available" ELSE "none"
         ELSE "unknown backend"

\* KeyListener.select_backend_from_config, with the configured value read
select_backend_from_config(w, preferred_backend) ==
    IF preferred_backend = "auto"
    THEN select_active_backend(w)
    ELSE IF preferred_backend \in backend_map
         THEN LET r == set_active_backend(w, preferred_backend)
              IN  IF r.raised = "ValueError" THEN select_active_backend(w) ELSE r
         ELSE select_active_backend(w)

\* KeyListener.initialize_backends: the classes that report themselves available
initialize_backends(available) ==
    SelectSeq(backend_classes, LAMBDA b : b \in available)

--------------------------------------------------------------------------
(* KeyListener: callbacks and dispatch *)

EventNames == {"on_activate", "on_deactivate"}

\* A registered callback is named by the number of its registration.
\* KeyListener.callbacks as __init__ leaves it
NoCallbacks == [on_activate |-> <<>>, on_deactivate |-> <<>>]

\* KeyListener.add_callback
add_callback(cbs, event, callback) ==
    IF event \in DOMAIN cbs
    THEN [cbs EXCEPT ![event] = Append(@, callback)]
    ELSE cbs

\* KeyListener._trigger_callbacks: the callbacks invoked, in order.  raise_at is
\* the position of the first callback that raises (0: none does); the loop
\* ends there, the exception leaving it.
trigger_callbacks(cbs, event, raise_at) ==
    IF event \in DOMAIN cbs
    THEN IF raise_at \in 1..Len(cbs[event])
         THEN [invoked |-> SubSeq(cbs[event], 1, raise_at), raised |-> TRUE]
         ELSE [invoked |-> cbs[event], raised |-> FALSE]
    ELSE [invoked |-> <<>>, raised |-> FALSE]

\* Edge without the comparison to was_active on activation
EdgeLevel(was_active, now_active) ==
    IF now_active THEN "on_activate"
    ELSE IF was_active THEN "on_deactivate"
    ELSE "none"

\* The comparison of on_input_event: which event, if any, is dispatched
Edge(was_active, now_active) ==
    IF ~was_active /\ now_active THEN "on_activate"
    ELSE IF was_active /\ ~now_active THEN "on_deactivate"
    ELSE "none"

\* KeyListener.on_input_event: the matcher after the event, the event dispatched,
\* the callbacks invoked, and whether an exception of a callback was caught
on_input_event(kc, active, cbs, key, event_type, raise_at) ==
    IF active = "None"
    THEN [key_chord |-> kc, dispatched |-> "none", invoked |-> <<>>, caught |-> FALSE]
    ELSE LET was_active == is_active(kc)
             kc2        == update(kc, key, event_type)
             now_active == is_active(kc2)
             event      == Edge(was_active, now_active)
             t          == trigger_callbacks(cbs, event, raise_at)
         IN  [key_chord |-> kc2, dispatched |-> event,
              invoked |-> t.invoked, caught |-> t.raised]

--------------------------------------------------------------------------
(* What the model records about the calls made *)

NoCall ==
    [op |-> "", key |-> NoneKey, event_type |-> "", cfg |-> "",
     combination |-> <<>>, raised |-> "none", warning |-> "none",
     failure |-> "none", hist |-> <<>>,
     dispatched |-> "none",
     invoked |-> <<>>, caught |-> FALSE]

Call(op) == [NoCall EXCEPT !.op = op]

\* The events of the scenario "ctrl+shift+a, then release a".
Script ==
    << <<"CTRL_LEFT", KEY_PRESS>>, <<"SHIFT_RIGHT", KEY_PRESS>>,
       <<"A", KEY_PRESS>>, <<"A", KEY_RELEASE>> >>

\* script: how many events of Script the current matcher has received, having
\* received nothing else since it was constructed (-1 otherwise), and the
\* dispatches counted meanwhile.
ScriptStart == [pos |-> 0, activations |-> 0, deactivations |-> 0]
OffScript   == [pos |-> -1, activations |-> 0, deactivations |-> 0]

Advance(sc, key, event_type, event) ==
    IF sc.pos >= 0 /\ sc.pos < Len(Script) /\ Script[sc.pos + 1] = <<key, event_type>>
    THEN [pos |-> sc.pos + 1,
          activations   |-> sc.activations + (IF event = "on_activate" THEN 1 ELSE 0),
          deactivations |-> sc.deactivations + (IF event = "on_deactivate" THEN 1 ELSE 0)]
    ELSE OffScript

\* The native threads of the pynput backend: the keyboard listener's and the
\* mouse listener's.  Each runs the backend's handlers, and so on_input_event.
ThreadNames == {"keyboard", "mouse"}

\* A thread that is not inside on_input_event.  Inside it, pc is "read" after
\* was_active was assigned and "updated" after update() returned; key,
\* event_type, was_active and is_active are the locals of the call, and edge
\* is the transition the call's update() made in the matcher.
Idle == [pc |-> "idle", key |-> NoneKey, event_type |-> "", was_active |-> FALSE,
         is_active |-> FALSE, edge |-> "none"]

\* The values of recording_options.recording_mode
RecordingModes == {"continuous", "voice_activity_detection", "press_to_toggle",
                   "hold_to_record"}

\* WhisperWriterAppManager after init_components.  result_thread is "None", or
\* the state of the ResultThread it refers to: "running" (isRunning() is true)
\* or "finished"; running counts the ResultThread objects that run, referred to
\* or not; results counts the resultSignal emissions the main thread has not
\* handled yet; capture_pc and main_pc are the positions of the handler in
\* progress on the capture thread (on_activation) and on the main thread
\* (on_transcription_complete); did is what the last handler did.
AppInit ==
    [result_thread |-> "None", running |-> 0, results |-> 0,
     capture_pc |-> "idle", main_pc |-> "idle", did |-> "none"]

\* self.result_thread and self.result_thread.isRunning()
isRunning(a) == a.result_thread = "running"

\* start_result_thread from the construction of the thread on:
\* self.result_thread = ResultThread(...); ...; self.result_thread.start()
create_result_thread(a) ==
    [a EXCEPT !.result_thread = "running", !.running = @ + 1,
              !.did = "start_result_thread"]

--------------------------------------------------------------------------
(* The state machine *)

\* The construction of the listener returned: a backend is selected.
Alive == active_backend # "None"

Bounded(w) ==
    /\ w.pynput.kb_threads <= MaxListeners
    /\ w.pynput.ms_threads <= MaxListeners

Registered == Len(callbacks["on_activate"]) + Len(callbacks["on_deactivate"])

SetWorld(w) ==
    /\ backends' = w.backends
    /\ active_backend' = w.active_backend
    /\ evdev' = w.evdev
    /\ pynput' = w.pynput

\* KeyListener.__init__: load_activation_keys, initialize_backends,
\* select_backend_from_config; then the collaborators' registrations cbs
Constructed(available_sets, strings, cbs) ==
    \E available \in available_sets, c \in BackendConfigs, s \in strings :
        LET w0 == [backends |-> initialize_backends(available),
                   active_backend |-> "None",
                   evdev |-> EvdevInit, pynput |-> PynputInit]
            r  == select_backend_from_config(w0, c)
        IN  /\ backends = r.w.backends
            /\ active_backend = r.w.active_backend
            /\ evdev = r.w.evdev
            /\ pynput = r.w.pynput
            /\ key_chord = load_activation_keys(s)
            /\ callbacks = cbs
            /\ last = [Call("__init__") EXCEPT !.cfg = c, !.combination = s,
                                               !.raised = r.raised,
                                               !.warning = fallback_warning(w0, c)]
            /\ last_fired = "none"
            /\ script = ScriptStart
            /\ threads = [t \in ThreadNames |-> Idle]
            /\ app = AppInit

\* KeyListener.start().  The call is also made on a listener that has no
\* backend selected: the object __init__ leaves when selection raised.
Start ==
    /\ LET r == start(World)
       IN  /\ Bounded(r.w)
           /\ SetWorld(r.w)
           /\ last' = [Call("start") EXCEPT !.raised = r.raised]
    /\ UNCHANGED <<key_chord, callbacks, last_fired, script, threads, app>>

\* KeyListener.stop(), on a listener with or without a backend selected
Stop ==
    /\ SetWorld(stop(World))
    /\ last' = Call("stop")
    /\ UNCHANGED <<key_chord, callbacks, last_fired, script, threads, app>>

\* KeyListener.update_backend(), the configuration holding input_backend = c
UpdateBackend(c) ==
    /\ Alive
    /\ LET r == select_backend_from_config(World, c)
       IN  /\ Bounded(r.w)
           /\ SetWorld(r.w)
           /\ last' = [Call("update_backend") EXCEPT !.cfg = c, !.raised = r.raised,
                            !.warning = fallback_warning(World, c)]
    /\ UNCHANGED <<key_chord, callbacks, last_fired, script, threads, app>>

\* update_activation_keys that also stops the active backend
UpdateActivationKeysReset(s) ==
    /\ Alive
    /\ key_chord' = load_activation_keys(s)
    /\ script' = ScriptStart
    /\ SetWorld(stop(World))
    /\ last' = [Call("update_activation_keys") EXCEPT !.combination = s]
    /\ UNCHANGED <<callbacks, last_fired, threads, app>>

\* update_activation_keys that gives the new matcher the pressed set of the old
UpdateActivationKeysKeep(s) ==
    /\ Alive
    /\ key_chord' = [load_activation_keys(s) EXCEPT
                         !.pressed_keys = key_chord.pressed_keys]
    /\ script' = ScriptStart
    /\ last' = [Call("update_activation_keys") EXCEPT !.combination = s]
    /\ UNCHANGED <<backends, active_backend, callbacks, evdev, pynput, last_fired,
                   threads, app>>

\* KeyListener.update_activation_keys(), the configuration holding activation_key = s
UpdateActivationKeys(s) ==
    /\ Alive
    /\ key_chord' = load_activation_keys(s)
    /\ script' = ScriptStart
    /\ last' = [Call("update_activation_keys") EXCEPT !.combination = s]
    /\ UNCHANGED <<backends, active_backend, callbacks, evdev, pynput, last_fired,
                   threads, app>>

\* KeyListener.add_callback(event, callback), callback a new function
AddCallback(event) ==
    /\ Alive
    /\ event \in EventNames => Registered < MaxCallbacks
    /\ callbacks' = add_callback(callbacks, event, Registered + 1)
    /\ last' = [Call("add_callback") EXCEPT !.cfg = event]
    /\ UNCHANGED <<backends, active_backend, key_chord, evdev, pynput, last_fired,
                   script, threads, app>>

\* A backend invokes its sink, KeyListener.on_input_event, with (key, event_type);
\* any of the callbacks invoked may raise.
Deliver(key, event_type) ==
    \E raise_at \in 0..Registered :
    LET r == on_input_event(key_chord, active_backend, callbacks, key, event_type,
                            raise_at)
    IN  /\ raise_at = 0 \/ r.caught
        /\ key_chord' = r.key_chord
        /\ last' = [Call("on_input_event") EXCEPT !.key = key,
                        !.event_type = event_type,
                        !.dispatched = r.dispatched, !.invoked = r.invoked,
                        !.caught = r.caught]
        /\ last_fired' = IF r.dispatched # "none" THEN r.dispatched ELSE last_fired
        /\ script' = Advance(script, key, event_type, r.dispatched)
        /\ UNCHANGED <<backends, active_backend, callbacks, evdev, pynput, threads, app>>

\* A backend drops a native event: the sink is not invoked.
Drop ==
    /\ last' = Call("dropped")
    /\ UNCHANGED <<backends, active_backend, key_chord, callbacks, evdev, pynput,
                   last_fired, script, threads, app>>

\* The evdev backend's capture loop delivers an event.
EvdevEvent(key, event_type) ==
    /\ evdev.capturing
    /\ Deliver(key, event_type)

\* PynputBackend._on_keyboard_press / _on_keyboard_release on a keyboard thread
PynputKeyboard(native, is_press) ==
    /\ pynput.kb_threads > 0
    /\ LET translated_event == translate_key_event(native, is_press)
       IN  IF translated_event[1] # NoneKey
           THEN Deliver(translated_event[1], translated_event[2])
           ELSE Drop

\* PynputBackend._on_mouse_click on a mouse thread
PynputMouseClick(button, pressed) ==
    /\ pynput.ms_threads > 0
    /\ LET translated_event == translate_key_event(button, pressed)
       IN  Deliver(translated_event[1], translated_event[2])

\* on_input_event on thread t, up to the assignment of was_active
ThreadRead(t, key, event_type) ==
    /\ threads[t].pc = "idle"
    /\ active_backend # "None"
    /\ threads' = [threads EXCEPT ![t] =
            [Idle EXCEPT !.pc = "read", !.key = key, !.event_type = event_type,
                         !.was_active = is_active(key_chord)]]
    /\ UNCHANGED <<backends, active_backend, key_chord, callbacks, evdev, pynput,
                   last, last_fired, script, app>>

\* The keyboard thread runs _on_keyboard_press / _on_keyboard_release and enters
\* on_input_event.
KeyboardEnter(native, is_press) ==
    /\ pynput.kb_threads > 0
    /\ threads["keyboard"].pc = "idle"
    /\ LET translated_event == translate_key_event(native, is_press)
       IN  IF translated_event[1] # NoneKey
           THEN ThreadRead("keyboard", translated_event[1], translated_event[2])
           ELSE Drop

\* The mouse thread runs _on_mouse_click and enters on_input_event.
MouseEnter(button, pressed) ==
    /\ pynput.ms_threads > 0
    /\ LET translated_event == translate_key_event(button, pressed)
       IN  ThreadRead("mouse", translated_event[1], translated_event[2])

\* on_input_event on thread t: is_active = self.key_chord.update(key, event_type)
ThreadUpdate(t) ==
    /\ threads[t].pc = "read"
    /\ key_chord' = update(key_chord, threads[t].key, threads[t].event_type)
    /\ threads' = [threads EXCEPT ![t].pc = "updated",
                                  ![t].is_active = is_active(key_chord'),
                                  ![t].edge = Edge(is_active(key_chord),
                                                   is_active(key_chord'))]
    /\ script' = OffScript
    /\ UNCHANGED <<backends, active_backend, callbacks, evdev, pynput, last,
                   last_fired, app>>

\* on_input_event on thread t: the comparison of was_active and is_active, and
\* the callbacks
ThreadDispatch(t) ==
    /\ threads[t].pc = "updated"
    /\ \E raise_at \in 0..Registered :
         LET event == Edge(threads[t].was_active, threads[t].is_active)
             r     == trigger_callbacks(callbacks, event, raise_at)
         IN  /\ raise_at = 0 \/ r.raised
             /\ last' = [Call("on_input_event") EXCEPT !.key = threads[t].key,
                             !.event_type = threads[t].event_type,
                             !.dispatched = event, !.invoked = r.invoked,
                             !.caught = r.raised]
             /\ last_fired' = IF event # "none" THEN event ELSE last_fired
    /\ threads' = [threads EXCEPT ![t] = Idle]
    /\ UNCHANGED <<backends, active_backend, key_chord, callbacks, evdev, pynput,
                   script, app>>

\* The calls of start() and stop() that precede the one being made, the two
\* most recent, each with the point at which it failed.
History ==
    IF last.op \in {"start", "stop"}
    THEN LET h == Append(last.hist, <<last.op, last.failure>>)
         IN  IF Len(h) > 2 THEN Tail(h) ELSE h
    ELSE <<>>

\* KeyListener.start() with pynput the active backend, PynputBackend.start
\* failing at the point failure names
StartOutcome(failure) ==
    /\ active_backend = "pynput"
    /\ failure = "key_map" => pynput.key_map = "None"
    /\ LET r == PynputStartOutcome(pynput, failure)
       IN  /\ r.p.kb_threads <= MaxListeners /\ r.p.ms_threads <= MaxListeners
           /\ pynput' = r.p
           /\ last' = [Call("start") EXCEPT !.raised = r.raised,
                           !.failure = failure, !.hist = History]
    /\ UNCHANGED <<backends, active_backend, key_chord, callbacks, evdev,
                   last_fired, script, threads, app>>

\* KeyListener.stop() with pynput the active backend, PynputBackend.stop
\* failing at the point failure names
StopOutcome(failure) ==
    /\ active_backend = "pynput"
    /\ failure = "keyboard_stop" => pynput.keyboard_listener
    /\ failure = "mouse_stop" => pynput.mouse_listener
    /\ pynput' = PynputStopOutcome(pynput, failure)
    /\ last' = [Call("stop") EXCEPT !.failure = failure, !.hist = History]
    /\ UNCHANGED <<backends, active_backend, key_chord, callbacks, evdev,
                   last_fired, script, threads, app>>

\* The listener dispatches on_activate on the capture thread:
\* on_activation up to the test of the running result thread, and all of it
\* when a result thread runs (recording_mode being mode).
OnActivation(mode) ==
    /\ Alive
    /\ app.capture_pc = "idle"
    /\ last_fired # "on_activate"
    /\ last_fired' = "on_activate"
    /\ last' = [Call("on_activation") EXCEPT !.cfg = mode]
    /\ app' = IF isRunning(app)
              THEN [app EXCEPT !.did =
                        IF mode = "press_to_toggle" THEN "stop_recording"
                        ELSE IF mode = "continuous" THEN "stop"
                        ELSE "none"]
              ELSE [app EXCEPT !.capture_pc = "start_result_thread"]
    /\ UNCHANGED <<backends, active_backend, key_chord, callbacks, evdev, pynput,
                   script, threads>>

\* start_result_thread on the capture thread: the test of the running thread
CaptureCheck ==
    /\ app.capture_pc = "start_result_thread"
    /\ app' = IF isRunning(app)
              THEN [app EXCEPT !.capture_pc = "idle", !.did = "none"]
              ELSE [app EXCEPT !.capture_pc = "create"]
    /\ UNCHANGED <<backends, active_backend, key_chord, callbacks, evdev, pynput,
                   last, last_fired, script, threads>>

\* start_result_thread on the capture thread: the thread is created and started
CaptureCreate ==
    /\ app.capture_pc = "create"
    /\ app.running < MaxResultThreads
    /\ app' = [create_result_thread(app) EXCEPT !.capture_pc = "idle"]
    /\ UNCHANGED <<backends, active_backend, key_chord, callbacks, evdev, pynput,
                   last, last_fired, script, threads>>

\* The listener dispatches on_deactivate on the capture thread: on_deactivation
OnDeactivation(mode) ==
    /\ Alive
    /\ app.capture_pc = "idle"
    /\ last_fired = "on_activate"
    /\ last_fired' = "on_deactivate"
    /\ last' = [Call("on_deactivation") EXCEPT !.cfg = mode]
    /\ app' = [app EXCEPT !.did =
                  IF mode = "hold_to_record" /\ isRunning(app)
                  THEN "stop_recording" ELSE "none"]
    /\ UNCHANGED <<backends, active_backend, key_chord, callbacks, evdev, pynput,
                   script, threads>>

\* A running ResultThread ends its run(), having emitted resultSignal or not;
\* referred is whether it is the one self.result_thread refers to.
ResultThreadFinishes(referred, emitted) ==
    /\ app.running > 0
    /\ IF referred THEN isRunning(app)
                   ELSE app.running > (IF isRunning(app) THEN 1 ELSE 0)
    /\ emitted => app.results = 0
    /\ app' = [app EXCEPT !.running = @ - 1,
                          !.result_thread = IF referred THEN "finished" ELSE @,
                          !.results = IF emitted THEN 1 ELSE @]
    /\ last' = Call("run")
    /\ UNCHANGED <<backends, active_backend, key_chord, callbacks, evdev, pynput,
                   last_fired, script, threads>>

\* The main thread handles resultSignal: on_transcription_complete, up to the
\* test of start_result_thread in continuous mode, all of it otherwise
\* (key_listener.start()).
OnTranscriptionComplete(mode) ==
    /\ app.results > 0
    /\ app.main_pc = "idle"
    /\ last' = [Call("on_transcription_complete") EXCEPT !.cfg = mode]
    /\ IF mode = "continuous"
       THEN /\ app' = IF isRunning(app)
                      THEN [app EXCEPT !.results = 0, !.did = "none"]
                      ELSE [app EXCEPT !.results = 0, !.main_pc = "create"]
            /\ UNCHANGED <<backends, active_backend, evdev, pynput>>
       ELSE /\ app' = [app EXCEPT !.results = 0, !.did = "key_listener.start"]
            /\ Bounded(start(World).w)
            /\ SetWorld(start(World).w)
    /\ UNCHANGED <<key_chord, callbacks, last_fired, script, threads>>

\* start_result_thread on the main thread: the thread is created and started
MainCreate ==
    /\ app.main_pc = "create"
    /\ app.running < MaxResultThreads
    /\ app' = [create_result_thread(app) EXCEPT !.main_pc = "idle"]
    /\ UNCHANGED <<backends, active_backend, key_chord, callbacks, evdev, pynput,
                   last, last_fired, script, threads>>

\* WhisperWriterAppManager.init_components: the listener is constructed and
\* on_activation and on_deactivation are registered.
Init ==
    Constructed(SUBSET BackendNames, ChordStrings,
        add_callback(add_callback(NoCallbacks, "on_activate", 1), "on_deactivate", 2))

\* The listener on a machine where pynput alone is available, nothing registered.
InitPynput == Constructed({{"pynput"}}, ChordStrings, NoCallbacks)

\* The listener as the application runs it: capture, the input events and the
\* two runtime reconfigurations.
Next ==
    \/ Start
    \/ Stop
    \/ \E c \in BackendConfigs : UpdateBackend(c)
    \/ \E s \in ChordStrings : UpdateActivationKeys(s)
    \/ \E k \in EvdevKeys, t \in InputEvent : EvdevEvent(k, t)
    \/ \E n \in NativeKeys, p \in BOOLEAN : PynputKeyboard(n, p)
    \/ \E b \in NativeButtons, p \in BOOLEAN : PynputMouseClick(b, p)

Spec == Init /\ [][Next]_vars

\* The listener, once started, with collaborators that register callbacks at any
\* time.
NextCallbacks ==
    \/ Start
    \/ \E s \in ChordStrings : UpdateActivationKeys(s)
    \/ \E e \in EventNames \cup {"on_other"} : AddCallback(e)
    \/ \E n \in NativeKeys, p \in BOOLEAN : PynputKeyboard(n, p)
    \/ \E b \in NativeButtons, p \in BOOLEAN : PynputMouseClick(b, p)

SpecCallbacks == InitPynput /\ [][NextCallbacks]_vars

\* The application's listener where pynput alone is available.
InitThreads ==
    Constructed({{"pynput"}}, ThreadChordStrings,
        add_callback(add_callback(NoCallbacks, "on_activate", 1), "on_deactivate", 2))

\* The pynput backend's keyboard thread and mouse thread, each running
\* on_input_event statement by statement: nothing in on_input_event keeps one
\* thread from running between two statements of the other.
NextThreads ==
    \/ Start
    \/ \E n \in ThreadNativeKeys, p \in BOOLEAN : KeyboardEnter(n, p)
    \/ \E b \in ThreadNativeButtons, p \in BOOLEAN : MouseEnter(b, p)
    \/ \E t \in ThreadNames : ThreadUpdate(t)
    \/ \E t \in ThreadNames : ThreadDispatch(t)

SpecThreads == InitThreads /\ [][NextThreads]_vars

\* The application's listener where pynput alone is available and "auto" is
\* configured (no backend is started by the construction), the chord being
\* "shift_right+a".
InitFailures ==
    /\ InitThreads
    /\ last.cfg = "auto"
    /\ last.combination = Str_shiftr_a

\* start() and stop() of a pynput backend whose native calls may fail, and the
\* events its listeners deliver.
NextFailures ==
    \/ \E f \in StartFailures : StartOutcome(f)
    \/ \E f \in StopFailures : StopOutcome(f)
    \/ \E n \in ThreadNativeKeys, p \in BOOLEAN : PynputKeyboard(n, p)
    \/ \E b \in NativeButtons, p \in BOOLEAN : PynputMouseClick(b, p)

SpecFailures == InitFailures /\ [][NextFailures]_vars

\* The application manager: its handlers run on the capture thread, where the
\* listener dispatches, and on the main thread, where resultSignal is handled;
\* the result threads run and finish on their own.
NextApp ==
    \/ \E m \in RecordingModes : OnActivation(m)
    \/ CaptureCheck
    \/ CaptureCreate
    \/ \E m \in RecordingModes : OnDeactivation(m)
    \/ \E r \in BOOLEAN, e \in BOOLEAN : ResultThreadFinishes(r, e)
    \/ \E m \in RecordingModes : OnTranscriptionComplete(m)
    \/ MainCreate

SpecApp == InitThreads /\ [][NextApp]_vars

--------------------------------------------------------------------------
(* Properties *)

\* The call recorded in last' is a delivery of an event to on_input_event.
Delivered == last'.op = "on_input_event"

IsPrefix(p, q) == Len(p) <= Len(q) /\ SubSeq(q, 1, Len(p)) = p

\* C1: for every event delivered to on_input_event, on_activate is dispatched to
\* the callbacks iff the matcher was inactive before the event and is active
\* after it, on_deactivate iff it was active before and is inactive after; in
\* every other case nothing is dispatched and no callback is invoked, and a
\* dispatch invokes the callbacks registered for its event, from the first on.
C1_DispatchIffEdge ==
    [][ Delivered =>
          /\ (last'.dispatched = "on_activate")
                <=> (~is_active(key_chord) /\ is_active(key_chord'))
          /\ (last'.dispatched = "on_deactivate")
                <=> (is_active(key_chord) /\ ~is_active(key_chord'))
          /\ last'.dispatched = "none" => last'.invoked = <<>>
          /\ last'.dispatched # "none" =>
                /\ IsPrefix(last'.invoked, callbacks[last'.dispatched])
                /\ callbacks[last'.dispatched] # <<>> => last'.invoked # <<>>
      ]_vars

\* An event has just activated a chord that requires keys, and the registered
\* on_activate callback was invoked.
C1_Witness ==
    /\ last.op = "on_input_event"
    /\ last.dispatched = "on_activate"
    /\ last.invoked = <<1>>
    /\ key_chord.keys # {}
    /\ is_active(key_chord)

\* Every element of the chord is a single key, and there is one.
OnlySingleKeys(kc) == kc.keys # {} /\ \A e \in kc.keys : ~e.cls

\* C2: for a chord of single keys, is_active() is true iff every listed key is in
\* the pressed set, whatever other keys are pressed.
C2_SingleKeysLoose ==
    OnlySingleKeys(key_chord) =>
        (is_active(key_chord)
            <=> \A e \in key_chord.keys : e.ks \subseteq key_chord.pressed_keys)

\* C3: for a chord with a class, the activity with every member of the class
\* pressed equals the activity with one of them released, the other pressed keys
\* being the same.
C3_BothMembersAsOne ==
    \A e \in key_chord.keys :
        (e.cls /\ e.ks \subseteq key_chord.pressed_keys) =>
            \A k \in e.ks :
                is_active(key_chord)
                    = is_active([key_chord EXCEPT !.pressed_keys = @ \ {k}])

\* The release of key unsatisfies an element of the chord: key is a required
\* single key, or the only pressed member of a required class.
ReleasesRequired(kc, key) ==
    \E e \in kc.keys :
        IF e.cls THEN e.ks \cap kc.pressed_keys = {key}
                 ELSE e.ks = {key}

\* C4: when the chord is active and a release arrives for a required single key
\* (or for the last pressed member of a required class), the chord becomes
\* inactive and every registered on_deactivate callback is invoked exactly once;
\* a release that arrives while the chord is inactive dispatches no on_deactivate.
C4_ReleaseDeactivatesOnce ==
    [][ (Delivered /\ last'.event_type = KEY_RELEASE) =>
          /\ (is_active(key_chord) /\ ReleasesRequired(key_chord, last'.key)) =>
                /\ ~is_active(key_chord')
                /\ last'.dispatched = "on_deactivate"
                /\ last'.invoked = callbacks["on_deactivate"]
          /\ ~is_active(key_chord) => last'.dispatched # "on_deactivate"
      ]_vars

\* C5: while the chord is active, a KEY_PRESS for a key that is already in the
\* pressed set leaves the pressed set and the active state unchanged and invokes
\* no callback.
C5_KeyRepeatNoRefire ==
    [][ ( /\ Delivered
          /\ last'.event_type = KEY_PRESS
          /\ last'.key \in key_chord.pressed_keys
          /\ is_active(key_chord) ) =>
          /\ key_chord'.pressed_keys = key_chord.pressed_keys
          /\ is_active(key_chord')
          /\ last'.dispatched = "none"
          /\ last'.invoked = <<>>
      ]_vars

\* A press has just been delivered for a key of an active chord that requires
\* keys, and nothing was dispatched: the chord was active before it, so the key
\* was pressed already.
C5_Witness ==
    /\ last.op = "on_input_event"
    /\ last.event_type = KEY_PRESS
    /\ last.dispatched = "none"
    /\ key_chord.keys # {}
    /\ is_active(key_chord)

\* C6: with the chord parsed from "ctrl+shift+a" and an empty pressed set, after
\* press(CTRL_LEFT), press(SHIFT_RIGHT), press(A) the chord is active and
\* on_activate was dispatched once in total; after release(A) it is inactive and
\* on_deactivate was dispatched once in total.
C6_CtrlShiftAScenario ==
    key_chord.keys = ParsedChords[Str_ctrl_shift_a] =>
        /\ script.pos = 3 =>
              /\ is_active(key_chord)
              /\ script.activations = 1 /\ script.deactivations = 0
        /\ script.pos = 4 =>
              /\ ~is_active(key_chord)
              /\ script.activations = 1 /\ script.deactivations = 1

\* The four events of the scenario have been delivered to a matcher built from
\* "ctrl+shift+a".
C6_Witness ==
    /\ key_chord.keys = ParsedChords[Str_ctrl_shift_a]
    /\ script.pos = 4
    /\ last.dispatched = "on_deactivate"

\* C7: with update_backend and update_activation_keys interleaved with the input
\* events, the events dispatched alternate, on_activate first: no on_activate
\* follows an on_activate, and each on_deactivate follows an on_activate.  (Stated
\* for the dispatches of chords that require keys.)
C7_DispatchAlternates ==
    [][ (Delivered /\ key_chord.keys # {}) =>
          /\ last'.dispatched = "on_activate" => last_fired # "on_activate"
          /\ last'.dispatched = "on_deactivate" => last_fired = "on_activate"
      ]_vars

\* C8: a call that changes the active backend leaves the pressed set empty.
C8_SwitchClearsPressed ==
    [][ active_backend' # active_backend => key_chord'.pressed_keys = {} ]_vars

\* A backend captures: its capture loop, or a native listener thread, runs.
Capturing(b) ==
    IF b = "evdev" THEN evdev.capturing
    ELSE pynput.kb_threads > 0 \/ pynput.ms_threads > 0

\* C9: no backend other than the active one captures (the backend active before
\* a switch was stopped), so at most one backend captures.
C9_OnlyActiveCaptures ==
    \A b \in BackendNames : Capturing(b) => b = active_backend

\* C10: with input_backend = "auto" and the registry <<evdev, pynput>>, backend
\* selection (at construction and in update_backend) returns with the first,
\* evdev, as the active backend.
C10_AutoSelectsFirst ==
    ( /\ last.op \in {"__init__", "update_backend"}
      /\ last.cfg = "auto"
      /\ backends = <<"evdev", "pynput">> ) =>
        /\ last.raised = "none"
        /\ active_backend = "evdev"

\* update_backend has just run with "auto" on <<evdev, pynput>> while pynput, the
\* backend active before the call, had its listeners running.
C10_Witness ==
    /\ last.op = "update_backend"
    /\ last.cfg = "auto"
    /\ backends = <<"evdev", "pynput">>
    /\ active_backend = "evdev"
    /\ pynput.keyboard_listener

\* The configured value c is not "auto" and names no backend of the registry:
\* an unknown string, or a known backend that is not available.
NamesNoAvailableBackend(c) == c # "auto" /\ ~InSeq(c, backends)

\* C11: when input_backend names a backend that is not available, or is an
\* unknown string, and a backend is available, backend selection (at
\* construction and in update_backend) returns without raising, having logged
\* the fallback warning, and the active backend is the first of the registry.
C11_FallbackToAuto ==
    ( /\ last.op \in {"__init__", "update_backend"}
      /\ NamesNoAvailableBackend(last.cfg)
      /\ backends # <<>> ) =>
        /\ last.raised = "none"
        /\ last.warning \in {"not available", "unknown backend"}
        /\ active_backend = backends[1]

\* update_backend has just run with "evdev" configured where pynput alone is
\* available, and the warning of the unavailable backend was logged.
C11_Witness ==
    /\ last.op = "update_backend"
    /\ last.cfg = "evdev"
    /\ backends = <<"pynput">>
    /\ last.warning = "not available"
    /\ active_backend = "pynput"

\* C12: when no backend is available, backend selection raises RuntimeError to
\* the caller whatever input_backend holds, and no active backend is set.
C12_NoBackendIsFatal ==
    backends = <<>> =>
        /\ last.op \in {"__init__", "update_backend"} => last.raised = "RuntimeError"
        /\ active_backend = "None"
        /\ ~Capturing("evdev") /\ ~Capturing("pynput")

\* Construction has just failed with a known backend name configured and no
\* backend available.
C12_Witness ==
    /\ backends = <<>>
    /\ last.op = "__init__"
    /\ last.cfg = "pynput"
    /\ last.raised = "RuntimeError"
    /\ active_backend = "None"

\* C20: start() on a listener with no backend selected raises RuntimeError to
\* the caller and starts no backend; stop() on such a listener returns without
\* raising and changes nothing.
C20_StartWithoutBackendRaises ==
    [][ (active_backend = "None" /\ last'.op \in {"start", "stop"}) =>
          /\ last'.op = "start" => last'.raised = "RuntimeError"
          /\ last'.op = "stop" => last'.raised = "none"
          /\ UNCHANGED <<backends, active_backend, evdev, pynput, key_chord,
                         callbacks>>
          /\ ~Capturing("evdev")' /\ ~Capturing("pynput")'
      ]_vars

\* start() has just raised on a listener with no backend selected.
C20_Witness ==
    /\ last.op = "start"
    /\ last.raised = "RuntimeError"
    /\ active_backend = "None"
    /\ pynput = PynputInit /\ evdev = EvdevInit

\* C13: a native event whose key the backend's table does not hold never
\* reaches the sink: on_input_event is invoked with a KeyCode only, so no event
\* without a mapping changes the pressed set or the active state.
C13_UnmappedNeverReachesSink ==
    [][ last'.op = "on_input_event" =>
          /\ last'.key \in KeyCode
          /\ NoneKey \notin key_chord'.pressed_keys
      ]_vars

\* C14: when a callback raises during the dispatch of an edge, every callback
\* registered for the event dispatched is still invoked for that edge.
C14_RaisingCallbackSkipsNone ==
    [][ (Delivered /\ last'.caught) =>
          last'.invoked = callbacks[last'.dispatched]
      ]_vars

\* C15: once stop() of the pynput backend has returned (its listener references
\* are cleared), none of its native listener threads runs, so it delivers no
\* event, however many times start() was called before.
C15_NoThreadAfterStop ==
    /\ ~pynput.keyboard_listener => pynput.kb_threads = 0
    /\ ~pynput.mouse_listener => pynput.ms_threads = 0

\* C17: a dispatch invokes the callbacks registered for its event in the order
\* of their registration, each once; add_callback appends the callback to the
\* list of its event when the event is on_activate or on_deactivate, and leaves
\* both lists unchanged for any other event name.
C17_RegistrationOrder ==
    [][ /\ (Delivered /\ last'.dispatched # "none") =>
              last'.invoked = callbacks[last'.dispatched]
        /\ last'.op = "add_callback" =>
              IF last'.cfg \in EventNames
              THEN callbacks' = [callbacks EXCEPT ![last'.cfg] =
                                     Append(@, Registered + 1)]
              ELSE callbacks' = callbacks
      ]_vars

\* C18: update_activation_keys() replaces the matcher by one built from the
\* configured string, with an empty pressed set, and leaves the registry of
\* backends, the active backend, the backends' capture and the callbacks as
\* they were.
C18_UpdateKeysKeepsBackend ==
    [][ last'.op = "update_activation_keys" =>
          /\ key_chord' = KeyChord(ParsedChords[last'.combination])
          /\ UNCHANGED <<backends, active_backend, evdev, pynput, callbacks>>
          /\ \A b \in BackendNames : Capturing(b)' = Capturing(b)
      ]_vars

\* update_activation_keys() has just replaced the matcher of a listener whose
\* active backend captures.
C18_Witness ==
    /\ last.op = "update_activation_keys"
    /\ active_backend \in BackendNames
    /\ Capturing(active_backend)
    /\ key_chord.keys # {}
    /\ key_chord.pressed_keys = {}

\* What the recognized tokens of each configured string stand for.
C19_Elements ==
    [s \in ChordStrings |->
        IF s = Str_ctrl_shift_a
            THEN {Class({"CTRL_LEFT", "CTRL_RIGHT"}),
                  Class({"SHIFT_LEFT", "SHIFT_RIGHT"}), Single("A")}
        ELSE IF s = Str_shiftr_a THEN {Single("SHIFT_RIGHT"), Single("A")}
        ELSE IF s = Str_mixed THEN {Class({"CTRL_LEFT", "CTRL_RIGHT"}), Single("A")}
        ELSE IF s = Str_alt_meta
            THEN {Class({"ALT_LEFT", "ALT_RIGHT"}), Class({"META_LEFT", "META_RIGHT"})}
        ELSE {}]

\* C19: the matcher built from a configured string (at construction and in
\* update_activation_keys) holds exactly the class of each CTRL, SHIFT, ALT or
\* META token, the key of each token naming a KeyCode, whatever the case of the
\* letters and the blanks around the tokens, and nothing for the other tokens.
C19_ParseKeyCombination ==
    last.op \in {"__init__", "update_activation_keys"} =>
        key_chord.keys = C19_Elements[last.combination]

\* The string "Ctrl + foo+A" has just been parsed: a class, a token that is
\* skipped and a single key.
C19_Witness ==
    /\ last.op = "update_activation_keys"
    /\ last.combination = Str_mixed
    /\ key_chord.keys = {Class({"CTRL_LEFT", "CTRL_RIGHT"}), Single("A")}

\* C16: every call of on_input_event made on the keyboard thread or the mouse
\* thread dispatches the event of the transition its own update() made in the
\* matcher: on_activate when the update took the matcher from inactive to
\* active, on_deactivate when it took it from active to inactive, nothing
\* otherwise; so each transition fires its event exactly once, whatever the
\* interleaving of the two threads.
C16_AtomicEdgeDetection ==
    [][ \A t \in ThreadNames :
          (threads[t].pc = "updated" /\ threads'[t].pc = "idle") =>
              last'.dispatched = threads[t].edge
      ]_vars

\* C21: each event delivered to the matcher leaves its key in the pressed set
\* iff the event is a KEY_PRESS, and leaves every other key as it was; so the
\* pressed set is the set of keys whose most recent event was a press, and the
\* release of a key that is not in the set changes nothing.
C21_PressedIsLastPressed ==
    [][ Delivered =>
          /\ (last'.key \in key_chord'.pressed_keys) <=> (last'.event_type = KEY_PRESS)
          /\ \A k \in (KeyCode \cup {NoneKey}) \ {last'.key} :
                (k \in key_chord'.pressed_keys) <=> (k \in key_chord.pressed_keys)
          /\ key_chord'.pressed_keys \subseteq KeyCode \cup {NoneKey}
          /\ key_chord'.keys = key_chord.keys
      ]_vars

\* A release has just been delivered for a key while other keys are pressed,
\* and the key is not in the pressed set.
C21_Witness ==
    /\ last.op = "on_input_event"
    /\ last.event_type = KEY_RELEASE
    /\ last.key \notin key_chord.pressed_keys
    /\ Cardinality(key_chord.pressed_keys) >= 2

\* C22: immediately after update_activation_keys() the pressed set of the
\* matcher is empty, whatever was pressed, and whether or not the chord was
\* active, before the call.
C22_ReloadClearsPressed ==
    [][ last'.op = "update_activation_keys" => key_chord'.pressed_keys = {} ]_vars

\* update_activation_keys() has just run after an on_activate that no
\* on_deactivate followed: the chord was active when it was replaced.
C22_Witness ==
    /\ last.op = "update_activation_keys"
    /\ last_fired = "on_activate"
    /\ key_chord.keys # {}
    /\ key_chord.pressed_keys = {}

\* C25: however many times start() is called, the pynput backend runs at most
\* one keyboard listener and at most one mouse listener.
C25_StartIsIdempotent ==
    /\ pynput.kb_threads <= 1
    /\ pynput.ms_threads <= 1

\* C26: a matcher whose pressed set is empty is inactive, whatever its chord.
C26_EmptyPressedIsInactive ==
    key_chord.pressed_keys = {} => ~is_active(key_chord)

\* C27: when the construction of the listener returns, no backend captures.
C27_ConstructionDoesNotCapture ==
    last.op = "__init__" => \A b \in BackendNames : ~Capturing(b)

\* The active backend captures.
ActiveCaptures == active_backend \in BackendNames /\ Capturing(active_backend)

\* C28: when update_backend() is called while the active backend captures, the
\* backend that is active when it returns captures.
C28_UpdateBackendKeepsCapturing ==
    [][ (last'.op = "update_backend" /\ ActiveCaptures) => ActiveCaptures' ]_vars

\* C23: when start() of the pynput backend fails at any point, the call raises;
\* and when it returns normally, the backend translates at least one native key
\* to a KeyCode.
C23_StartSurfacesFailures ==
    (last.op = "start" /\ active_backend = "pynput") =>
        /\ last.failure # "none" => last.raised # "none"
        /\ last.raised = "none" =>
              \E n \in NativeKeys : get_key_code(n) # NoneKey

\* The points at which start() fails after it has begun to replace listeners.
FailsPartWay == {"mouse_ctor", "keyboard_start", "mouse_start"}

\* C24: after a start() that failed part-way, a stop() and then a start() that
\* do not fail end with exactly one keyboard listener and one mouse listener
\* running; after a stop() that failed on one listener, a stop() that does not
\* fail leaves no listener referenced or started.
C24_RetryAfterFailure ==
    /\ ( /\ last.op = "start" /\ last.raised = "none"
         /\ Len(last.hist) = 2
         /\ last.hist[1][1] = "start" /\ last.hist[1][2] \in FailsPartWay
         /\ last.hist[2] = <<"stop", "none">> ) =>
            /\ pynput.kb_threads = 1
            /\ pynput.ms_threads = 1
    /\ ( /\ last.op = "stop" /\ last.failure = "none"
         /\ last.hist # <<>>
         /\ last.hist[Len(last.hist)] \in
                {<<"stop", "keyboard_stop">>, <<"stop", "mouse_stop">>} ) =>
            /\ ~pynput.keyboard_listener /\ ~pynput.mouse_listener
            /\ ~pynput.kb_started /\ ~pynput.ms_started

\* C29: at most one result thread runs at any time.
C29_OneResultThread == app.running <= 1

====
